---- MODULE Spec2Model ----
(***************************************************************************)
(* Netflix metadata extractor: the call -> parse -> validate retry loop    *)
(* of NetflixExtractor.extract, the sequential NetflixExtractor            *)
(* .extract_batch, the response parser and the ContentMetadata schema,     *)
(* the scorers of evaluation.py and the command line of app.py.            *)
(*                                                                         *)
(* Python values are tagged records [kind, val]; the tag is compared       *)
(* first, so values of different Python types are simply unequal.          *)
(***************************************************************************)
EXTENDS Integers, Sequences, FiniteSets, TLC

VARIABLES
    items,        \* the argument of extract_batch: a list of dicts
    pc,           \* control position: "batch" (between items), "attempt" (in
                  \* extract's loop), "returned" (extract returned), "done" (batch
                  \* returned), "raised" (an exception left extract_batch);
                  \* "validate" / "validated" in runs of the validator alone,
                  \* "parse" / "parsed" in runs of the parser alone,
                  \* "score" / "scored" in runs of a scorer alone;
                  \* "main", a function name, "input", "exit" in app.py
    idx,          \* number of batch items already appended to results
    results,      \* extract_batch's local list results
    title,        \* extract_batch's local title of the current item
    description,  \* the argument of the running extract call
    prompt,       \* extract's local prompt
    last_error,   \* extract's local last_error
    attempt,      \* extract's loop variable attempt
    raw_response, \* extract's local raw_response (Unbound before a call returns)
    ret,          \* the dict extract returned to extract_batch
    exc,          \* the exception that propagated out of extract / extract_batch
    hist,         \* history of the running extract call: one entry per attempt
    callLog,      \* batch-wide log of model calls: the item index of each call
    vdata,        \* the mapping handed to the schema validator (validator runs)
    vout,         \* what the schema validator produced for vdata
    ptext,        \* the response text handed to the parser (parser runs)
    pvalue,       \* the value ptext was rendered from, None if it was not
    pout,         \* what _parse_response produced for ptext
    sresults,     \* the results list handed to a scorer (scorer runs)
    df,           \* the dataset handed to genre_accuracy: a list of rows
    annotations,  \* the annotations handed to manual_accuracy
    sout,         \* what the scorer returned
    API_KEY,      \* app.py: the credential read from the environment
    command,      \* app.py: sys.argv[1:]
    extractor,    \* app.py: the extractor of the running subcommand, None before
    stdout        \* app.py: the lines printed so far

vars == <<items, pc, idx, results, title, description, prompt, last_error,
          attempt, raw_response, ret, exc, hist, callLog, vdata, vout,
          ptext, pvalue, pout, sresults, df, annotations, sout,
          API_KEY, command, extractor, stdout>>

extractVars == <<description, prompt, last_error, attempt, raw_response, ret, hist>>
validatorVars == <<vdata, vout>>
parserVars == <<ptext, pvalue, pout>>
scorerVars == <<sresults, df, annotations, sout>>
cliVars == <<API_KEY, command, extractor, stdout>>

-----------------------------------------------------------------------------
(* Bounds of the model *)

MaxItems == 2
MaxListLen == 1
MaxChunks == 2
MaxWs == 1
MaxResults == 2
MaxAnnotations == 2
MaxInputs == 1
MaxBatch == 3

(* Program constant: self.max_retries *)

max_retries == 2
\* the bits of a Python float's significand
Precision == 53

-----------------------------------------------------------------------------
(* Python / JSON values *)

None == [kind |-> "None", val |-> "None"]
Unbound == [kind |-> "unbound", val |-> "unbound"]
Str(parts) == [kind |-> "str", val |-> parts]
JStr(s) == [kind |-> "str", val |-> s]
JNum(n) == [kind |-> "num", val |-> n]
JNull == [kind |-> "null", val |-> "null"]
JList(xs) == [kind |-> "list", val |-> xs]
JDict(f) == [kind |-> "dict", val |-> f]

Ok(v) == [kind |-> "ok", val |-> v]
Raise(e) == [kind |-> "raise", val |-> e]
Exception(type, msg) == [kind |-> type, val |-> msg]

DictGet(d, k, default) == IF k \in DOMAIN d THEN d[k] ELSE default

SeqsUpTo(S, n) == UNION {[1..k -> S] : k \in 0..n}

-----------------------------------------------------------------------------
(* schemas.py: ContentMetadata *)

FieldOrder == <<"genres", "themes", "mood", "target_audience", "content_warnings">>
ListFields == {"genres", "themes", "content_warnings"}
StrFields == {"mood", "target_audience"}
FieldNames == ListFields \cup StrFields
content_warnings_default == JList(<<>>)

IsStr(v) == v.kind = "str"
IsListOfStr(v) == v.kind = "list" /\ \A i \in 1..Len(v.val) : IsStr(v.val[i])

\* a validator that coerces: any string or list passes for any field
FieldTypeOkLax(name, v) == v.kind \in {"str", "list"}

FieldTypeOk(name, v) == IF name \in ListFields THEN IsListOfStr(v) ELSE IsStr(v)

\* the pydantic error of one field of the mapping, or "" when the field is accepted
FieldError(data, name) ==
    IF name \notin DOMAIN data
    THEN IF name = "content_warnings" THEN "" ELSE "missing"
    ELSE IF FieldTypeOk(name, data[name]) THEN ""
    ELSE IF name \in StrFields THEN "string_type"
    ELSE IF data[name].kind = "list" THEN "string_type" ELSE "list_type"

FieldErrors(data) ==
    SelectSeq([i \in 1..Len(FieldOrder) |->
                  [loc |-> FieldOrder[i], type |-> FieldError(data, FieldOrder[i])]],
              LAMBDA e : e.type # "")

\* a validator that drops a supplied content_warnings in favour of the default
FieldValueDefaultOnly(data, name) ==
    IF name = "content_warnings" THEN content_warnings_default ELSE data[name]

FieldValue(data, name) ==
    IF name = "content_warnings"
    THEN DictGet(data, name, content_warnings_default)
    ELSE data[name]

\* a constructor that fills the record without checking presence or types
ContentMetadataUnchecked(data) ==
    Ok([kind |-> "ContentMetadata", val |-> [n \in FieldNames |-> DictGet(data, n, None)]])

\* the ContentMetadata constructor applied to a mapping: the record, or ValidationError
ContentMetadata(data) ==
    IF FieldErrors(data) = <<>>
    THEN Ok([kind |-> "ContentMetadata",
             val |-> [n \in FieldNames |-> FieldValue(data, n)]])
    ELSE Raise(Exception("ValidationError",
                         Str(<<"validation errors for ContentMetadata", FieldErrors(data)>>)))

-----------------------------------------------------------------------------
(* extractor.py: response parser.  A response text is a sequence of tokens:  *)
(* a fence of three backticks, the tag json, whitespace, a rendered JSON      *)
(* value, or a word of prose.  A JSON value is either rendered as one token   *)
(* (a value none of whose strings holds a fence), or token by token: the      *)
(* punctuation of objects and arrays, the quotes of a string, and between the *)
(* quotes the chunks of the string, which are themselves fences, tags,        *)
(* whitespace or words.  In runs of the parser alone a JSON string is the     *)
(* sequence of its chunks.                                                    *)

Fence == [kind |-> "fence", val |-> "BACKTICK BACKTICK BACKTICK"]
Tag == [kind |-> "tag", val |-> "json"]
Ws == [kind |-> "ws", val |-> " "]
Prose == [kind |-> "prose", val |-> "Not"]
Json(v) == [kind |-> "json", val |-> v]
Quote == [kind |-> "quote", val |-> "\""]
ObjOpen(k) == [kind |-> "objopen", val |-> k]
ObjClose == [kind |-> "objclose", val |-> "}"]
ArrOpen == [kind |-> "arropen", val |-> "["]
ArrClose == [kind |-> "arrclose", val |-> "]"]

\* the kinds of token a JSON string can hold between its quotes
ChunkKinds == {"fence", "tag", "ws", "prose"}

\* json.dumps of a string, of a list of at most one value, or of an object of one key
RECURSIVE json_dumps(_)
json_dumps(v) ==
    IF v.kind = "str" THEN <<Quote>> \o v.val \o <<Quote>>
    ELSE IF v.kind = "list"
         THEN <<ArrOpen>> \o (IF v.val = <<>> THEN <<>> ELSE json_dumps(v.val[1]))
                         \o <<ArrClose>>
    ELSE LET k == CHOOSE n \in DOMAIN v.val : TRUE
         IN  <<ObjOpen(k)>> \o json_dumps(v.val[k]) \o <<ObjClose>>

RECURSIVE DropWs(_)
DropWs(s) == IF s # <<>> /\ Head(s) = Ws THEN DropWs(Tail(s)) ELSE s

RECURSIVE DropTrailingWs(_)
DropTrailingWs(s) ==
    IF s # <<>> /\ s[Len(s)] = Ws THEN DropTrailingWs(SubSeq(s, 1, Len(s) - 1)) ELSE s

\* re.sub of the pattern: three backticks, json, any whitespace
RECURSIVE SubFenceJson(_)
SubFenceJson(s) ==
    IF s = <<>> THEN <<>>
    ELSE IF Len(s) >= 2 /\ s[1] = Fence /\ s[2] = Tag
         THEN SubFenceJson(DropWs(Tail(Tail(s))))
         ELSE <<Head(s)>> \o SubFenceJson(Tail(s))

\* re.sub of the pattern: three backticks, any whitespace
RECURSIVE SubFence(_)
SubFence(s) ==
    IF s = <<>> THEN <<>>
    ELSE IF s[1] = Fence
         THEN SubFence(DropWs(Tail(s)))
         ELSE <<Head(s)>> \o SubFence(Tail(s))

strip(s) == DropTrailingWs(DropWs(s))

_clean_json_response(response) == Str(strip(SubFence(SubFenceJson(response.val))))

\* the JSON decoder on a text rendered token by token: the value, or no value
RECURSIVE JsonDecode(_)
JsonDecode(b) ==
    LET n == Len(b)
        inner == SubSeq(b, 2, n - 1)
    IN  IF n >= 2 /\ b[1] = Quote /\ b[n] = Quote
           /\ \A i \in 1..Len(inner) : inner[i].kind \in ChunkKinds
        THEN Ok(JStr(inner))
        ELSE IF n >= 2 /\ b[1] = ArrOpen /\ b[n] = ArrClose
        THEN IF inner = <<>> THEN Ok(JList(<<>>))
             ELSE LET r == JsonDecode(inner)
                  IN  IF r.kind = "ok" THEN Ok(JList(<<r.val>>)) ELSE r
        ELSE IF n >= 2 /\ b[1].kind = "objopen" /\ b[n] = ObjClose
        THEN LET r == JsonDecode(inner)
             IN  IF r.kind = "ok" THEN Ok(JDict([k \in {b[1].val} |-> r.val])) ELSE r
        ELSE Raise(None)

\* the message of the decoder for a text that is not one JSON value
JsonDecodeDetail(body) ==
    IF body = <<>> THEN "Expecting value"
    ELSE IF body[1].kind = "json" THEN "Extra data"
    ELSE IF body[1].kind \in {"quote", "objopen", "arropen"}
         THEN IF \E i \in 2..Len(body) : JsonDecode(SubSeq(body, 1, i - 1)).kind = "ok"
              THEN "Extra data"
              ELSE IF Cardinality({i \in 1..Len(body) : body[i] = Quote}) % 2 = 1
                   THEN "Unterminated string starting at"
                   ELSE "Expecting ',' delimiter"
    ELSE "Expecting value"

\* json.loads: the text must be exactly one JSON value (whitespace around it allowed)
json_loads(text) ==
    LET body == strip(text.val) IN
    IF Len(body) = 1 /\ body[1].kind = "json"
    THEN Ok(body[1].val)
    ELSE IF JsonDecode(body).kind = "ok"
    THEN JsonDecode(body)
    ELSE Raise(Exception("JSONDecodeError", Str(<<JsonDecodeDetail(body)>>)))

\* a parser that hands the decoder's own error on, without the cleaned text
_parse_response_bare(response) == json_loads(_clean_json_response(response))

_parse_response(response) ==
    LET cleaned == _clean_json_response(response)
        r == json_loads(cleaned)
    IN  IF r.kind = "ok" THEN r
        ELSE Raise(Exception("ValueError",
                             Str(<<"Invalid JSON response: ", r.val.val,
                                   "\nResponse was: ", cleaned>>)))

\* the constructor call unpacks data as keyword arguments: only a mapping can be
\* unpacked, anything else is a TypeError
_validate(data) ==
    IF data.kind = "dict"
    THEN ContentMetadata(data.val)
    ELSE Raise(Exception("TypeError",
                         Str(<<"argument after ** must be a mapping, not ", data.kind>>)))

-----------------------------------------------------------------------------
(* prompts.py and extractor.py: prompts *)

_get_schema_string == Str(<<"Required JSON schema: ", FieldOrder>>)

EXTRACTION_PROMPT(d, schema) ==
    [template |-> "EXTRACTION_PROMPT", description |-> d, schema |-> schema]

RETRY_PROMPT(error, d) ==
    [template |-> "RETRY_PROMPT", error |-> error, description |-> d]

\* str(e)
str(e) == IF e = None THEN Str(<<"None">>) ELSE e.val

-----------------------------------------------------------------------------
(* Inputs: batch items, model responses, collaborator failures *)

EmptyDict == [k \in {} |-> ""]

\* a complete item, and one without the keys (item.get falls back to its defaults)
InputItems == { [title |-> "Dark", description |-> "A dark thriller"], EmptyDict }

ValidObject ==
    JDict([genres |-> JList(<<JStr("Drama"), JStr("Thriller")>>),
           themes |-> JList(<<JStr("survival")>>),
           mood |-> JStr("dark"),
           target_audience |-> JStr("adults")])

InvalidObject ==
    JDict([genres |-> JStr("Drama"),
           themes |-> JList(<<JStr("love")>>),
           target_audience |-> JStr("adults")])

ProseText == Str(<<Prose>>)
FencedValidText == Str(<<Fence, Tag, Ws, Json(ValidObject), Ws, Fence>>)
InvalidObjectText == Str(<<Ws, Json(InvalidObject)>>)
ArrayText == Str(<<Json(JList(<<JNum(1), JNum(2)>>))>>)

\* the texts the model-call collaborator may return
Responses == {ProseText, FencedValidText, InvalidObjectText, ArrayText}

ServiceError == Exception("APIError", Str(<<"service error">>))
CallValueError == Exception("ValueError", Str(<<"collaborator value error">>))

\* what one _call_api invocation can do: return a text or raise
CallOutcomes ==
    {Ok(t) : t \in Responses} \cup {Raise(ServiceError), Raise(CallValueError)}

\* the mappings handed to the schema validator
ElemVals == {JStr("Drama"), JNum(7)}
ListFieldVals ==
    {JNull, JStr("dark")} \cup {JList(xs) : xs \in SeqsUpTo(ElemVals, MaxListLen)}
StrFieldVals == {JNull, JStr("dark"), JList(<<>>)}
ValsFor(name) == IF name \in ListFields THEN ListFieldVals ELSE StrFieldVals
Mappings ==
    LET known == UNION {{m \in [K -> ListFieldVals \cup StrFieldVals] :
                            \A k \in K : m[k] \in ValsFor(k)} : K \in SUBSET FieldNames}
    IN  {JDict(m) : m \in known}
        \cup {JDict(m @@ ("rating" :> JStr("PG"))) : m \in {x \in known : DOMAIN x = FieldNames}}

-----------------------------------------------------------------------------
(* extractor.py: NetflixExtractor.extract *)

\* except (ValueError, ValidationError, json.JSONDecodeError): the last two are
\* subclasses of ValueError
\* an except clause that catches every exception
CaughtAll(e) == TRUE

Caught(e) == e.kind \in {"ValueError", "ValidationError", "JSONDecodeError"}

\* a loop that runs one attempt too many
AttemptRangeOneMore == 0 .. (1 + max_retries)

\* for attempt in range(1 + self.max_retries)
AttemptRange == 0 .. ((1 + max_retries) - 1)

\* a loop that switches to the retry prompt one attempt late
PromptForLateRetry(k, current, err, d) ==
    IF k > 1 THEN RETRY_PROMPT(str(err), d) ELSE current

\* the prompt sent on an attempt
PromptFor(k, current, err, d) ==
    IF k > 0 THEN RETRY_PROMPT(str(err), d) ELSE current

\* the try body after the prompt is chosen: call, parse, validate.
\* raw is the binding of raw_response after it, res the value or the exception
TryBody(o, raw) ==
    IF o.kind = "raise"
    THEN [raw |-> raw, res |-> o]
    ELSE LET data == _parse_response(o.val) IN
         [raw |-> o.val,
          res |-> IF data.kind = "raise" THEN data ELSE _validate(data.val)]

\* a success dict that reports the number of attempts instead of the retries
SuccessEnvelopeCountsAttempts(metadata, raw, k) ==
    [metadata |-> metadata, raw_response |-> raw, retries |-> k + 1,
     success |-> TRUE, error |-> None]

SuccessEnvelope(metadata, raw, k) ==
    [metadata |-> metadata, raw_response |-> raw, retries |-> k,
     success |-> TRUE, error |-> None]

\* a failure dict that invents an empty text when no call returned one
FailureEnvelopePlaceholder(raw, err) ==
    [metadata |-> None,
     raw_response |-> IF raw # Unbound THEN raw ELSE Str(<<>>),
     retries |-> max_retries,
     success |-> FALSE,
     error |-> str(err)]

\* a failure dict that reports the number of attempts instead of the retries
FailureEnvelopeCountsAttempts(raw, err) ==
    [metadata |-> None,
     raw_response |-> IF raw # Unbound THEN raw ELSE None,
     retries |-> max_retries + 1,
     success |-> FALSE,
     error |-> str(err)]

FailureEnvelope(raw, err) ==
    [metadata |-> None,
     raw_response |-> IF raw # Unbound THEN raw ELSE None,
     retries |-> max_retries,
     success |-> FALSE,
     error |-> str(err)]

\* an except clause that keeps the first error it saw
RecordErrorKeepFirst(old, e) == IF old = None THEN e ELSE old

\* except ... as e: last_error = e
RecordError(old, e) == e

HistEntry(p, o, t) == [prompt |-> p, call |-> o, result |-> t.res]

Attempted(p, o, t) ==
    /\ prompt' = p
    /\ raw_response' = t.raw
    /\ hist' = Append(hist, HistEntry(p, o, t))
    /\ callLog' = Append(callLog, idx + 1)
    /\ UNCHANGED <<items, idx, results, title, description, validatorVars, parserVars, scorerVars,
                   cliVars>>

\* an attempt whose response parses and validates: return the success dict
AttemptReturn ==
    /\ pc = "attempt" /\ attempt \in AttemptRange
    /\ \E o \in CallOutcomes :
        LET p == PromptFor(attempt, prompt, last_error, description)
            t == TryBody(o, raw_response)
        IN  /\ t.res.kind = "ok"
            /\ ret' = SuccessEnvelope(t.res.val, t.raw, attempt)
            /\ pc' = "returned"
            /\ Attempted(p, o, t)
            /\ UNCHANGED <<last_error, attempt, exc>>

\* an attempt that raises an exception the except clause catches
AttemptCaught ==
    /\ pc = "attempt" /\ attempt \in AttemptRange
    /\ \E o \in CallOutcomes :
        LET p == PromptFor(attempt, prompt, last_error, description)
            t == TryBody(o, raw_response)
        IN  /\ t.res.kind = "raise" /\ Caught(t.res.val)
            /\ last_error' = RecordError(last_error, t.res.val)
            /\ attempt' = attempt + 1
            /\ Attempted(p, o, t)
            /\ UNCHANGED <<pc, ret, exc>>

\* an attempt that raises an exception the except clause does not catch
AttemptPropagate ==
    /\ pc = "attempt" /\ attempt \in AttemptRange
    /\ \E o \in CallOutcomes :
        LET p == PromptFor(attempt, prompt, last_error, description)
            t == TryBody(o, raw_response)
        IN  /\ t.res.kind = "raise" /\ ~Caught(t.res.val)
            /\ exc' = t.res.val
            /\ pc' = "raised"
            /\ Attempted(p, o, t)
            /\ UNCHANGED <<last_error, attempt, ret>>

\* the loop is exhausted: return the failure dict
ExtractFail ==
    /\ pc = "attempt" /\ attempt \notin AttemptRange
    /\ ret' = FailureEnvelope(raw_response, last_error)
    /\ pc' = "returned"
    /\ UNCHANGED <<items, idx, results, title, description, prompt, last_error,
                   attempt, raw_response, exc, hist, callLog, validatorVars, parserVars, scorerVars,
                   cliVars>>

-----------------------------------------------------------------------------
(* extractor.py: NetflixExtractor.extract_batch *)

ItemTitle(item, i) == DictGet(item, "title", "Item " \o ToString(i + 1))
ItemDescription(item) == DictGet(item, "description", "")

\* result["title"] = title; result["description"] = description
WithItem(result, t, d) ==
    [metadata |-> result.metadata, raw_response |-> result.raw_response,
     retries |-> result.retries, success |-> result.success, error |-> result.error,
     title |-> t, description |-> d]

\* a batch that collects its results newest first
PrependResult(rs, r) == <<r>> \o rs

AppendResult(rs, r) == Append(rs, r)

\* a batch that starts the next item without waiting for the running extract call
BatchNextEager ==
    LET i == IF pc = "attempt" THEN idx + 1 ELSE idx
    IN  /\ pc \in {"batch", "attempt"} /\ i < Len(items)
        /\ idx' = i
        /\ title' = ItemTitle(items[i + 1], i)
        /\ description' = ItemDescription(items[i + 1])
        /\ prompt' = EXTRACTION_PROMPT(description', _get_schema_string)
        /\ last_error' = None
        /\ attempt' = 0
        /\ raw_response' = Unbound
        /\ ret' = None
        /\ hist' = <<>>
        /\ pc' = "attempt"
        /\ UNCHANGED <<items, results, exc, callLog, validatorVars, parserVars, scorerVars,
                       cliVars>>

\* the next loop iteration up to the first attempt of its extract call
BatchNext ==
    /\ pc = "batch" /\ idx < Len(items)
    /\ title' = ItemTitle(items[idx + 1], idx)
    /\ description' = ItemDescription(items[idx + 1])
    /\ prompt' = EXTRACTION_PROMPT(description', _get_schema_string)
    /\ last_error' = None
    /\ attempt' = 0
    /\ raw_response' = Unbound
    /\ ret' = None
    /\ hist' = <<>>
    /\ pc' = "attempt"
    /\ UNCHANGED <<items, idx, results, exc, callLog, validatorVars, parserVars, scorerVars,
                   cliVars>>

\* extract returned: attach title and description, append
BatchAppend ==
    /\ pc = "returned"
    /\ results' = AppendResult(results, WithItem(ret, title, description))
    /\ idx' = idx + 1
    /\ pc' = "batch"
    \* the frame of the extract call is gone
    /\ prompt' = None
    /\ last_error' = None
    /\ attempt' = 0
    /\ raw_response' = Unbound
    /\ ret' = None
    /\ hist' = <<>>
    /\ UNCHANGED <<items, title, description, exc, callLog, validatorVars, parserVars, scorerVars,
                   cliVars>>

\* return results
BatchReturn ==
    /\ pc = "batch" /\ idx = Len(items)
    /\ pc' = "done"
    /\ UNCHANGED <<items, idx, results, title, extractVars, exc, callLog, validatorVars, parserVars, scorerVars,
                   cliVars>>

-----------------------------------------------------------------------------
(* Specification of the extraction engine and the batch runner *)

\* the parts of the state a run does not use stay at their initial values
ValidatorIdle == vdata = None /\ vout = None
ParserIdle == ptext = None /\ pvalue = None /\ pout = None
ScorerIdle == sresults = <<>> /\ df = <<>> /\ annotations = <<>> /\ sout = None
CliIdle == API_KEY = None /\ command = <<>> /\ extractor = None /\ stdout = <<>>
ExtractorIdle ==
    /\ items = <<>>
    /\ idx = 0
    /\ results = <<>>
    /\ title = ""
    /\ description = ""
    /\ prompt = None
    /\ last_error = None
    /\ attempt = 0
    /\ raw_response = Unbound
    /\ ret = None
    /\ exc = None
    /\ hist = <<>>
    /\ callLog = <<>>

Init ==
    /\ items \in SeqsUpTo(InputItems, MaxItems)
    /\ pc = "batch"
    /\ idx = 0
    /\ results = <<>>
    /\ title = ""
    /\ description = ""
    /\ prompt = None
    /\ last_error = None
    /\ attempt = 0
    /\ raw_response = Unbound
    /\ ret = None
    /\ exc = None
    /\ hist = <<>>
    /\ callLog = <<>>
    /\ ValidatorIdle /\ ParserIdle /\ ScorerIdle /\ CliIdle

Next ==
    \/ BatchNext
    \/ AttemptReturn
    \/ AttemptCaught
    \/ AttemptPropagate
    \/ ExtractFail
    \/ BatchAppend
    \/ BatchReturn

Spec == Init /\ [][Next]_vars

-----------------------------------------------------------------------------
(* Specification of the schema validator alone, over every bounded mapping *)

ValidateStep ==
    /\ pc = "validate"
    /\ vout' = _validate(vdata)
    /\ pc' = "validated"
    /\ UNCHANGED <<items, idx, results, title, extractVars, exc, callLog, vdata,
                   parserVars, scorerVars, cliVars>>

InitValidate ==
    /\ vdata \in Mappings
    /\ vout = None
    /\ pc = "validate"
    /\ items = <<>>
    /\ idx = 0
    /\ results = <<>>
    /\ title = ""
    /\ description = ""
    /\ prompt = None
    /\ last_error = None
    /\ attempt = 0
    /\ raw_response = Unbound
    /\ ret = None
    /\ exc = None
    /\ hist = <<>>
    /\ callLog = <<>>
    /\ ParserIdle /\ ScorerIdle /\ CliIdle

NextValidate == ValidateStep

SpecValidate == InitValidate /\ [][NextValidate]_vars

-----------------------------------------------------------------------------
(* Specification of the response parser alone: texts rendered from a value    *)
(* and wrapped in a fenced block, and texts that are not JSON                 *)

Chunks == {Fence, Tag, Ws, Prose}
StringValues == {JStr(c) : c \in SeqsUpTo(Chunks, MaxChunks)}

\* the values rendered: {"mood": s} and {"genres": [s]} for every bounded string s
RenderedValues ==
    {JDict([k \in {"mood"} |-> s]) : s \in StringValues}
    \cup {JDict([k \in {"genres"} |-> JList(<<s>>)]) : s \in StringValues}

Repeat(tok, n) == [i \in 1..n |-> tok]

\* a fenced block around a text, the opening fence tagged or not, with whitespace
\* before the block, after the opening fence, before the closing fence, after it
Fenced(body, tagged, a, b, c, d) ==
    Repeat(Ws, a) \o <<Fence>> \o (IF tagged THEN <<Tag>> ELSE <<>>) \o Repeat(Ws, b)
    \o body \o Repeat(Ws, c) \o <<Fence>> \o Repeat(Ws, d)

FencedInputs ==
    {[value |-> v, text |-> Str(Fenced(json_dumps(v), t, a, b, c, d))] :
        v \in RenderedValues, t \in BOOLEAN,
        a \in 0..MaxWs, b \in 0..MaxWs, c \in 0..MaxWs, d \in 0..MaxWs}

\* texts that are not JSON: nothing, prose, a rendering cut short (bare or in a
\* fenced block), two renderings in a row
Truncated(body, n) == SubSeq(body, 1, Len(body) - n)

InvalidTexts ==
    {<<>>, <<Prose, Ws, Prose>>}
    \cup {Truncated(json_dumps(v), n) : v \in RenderedValues, n \in 1..2}
    \cup {Fenced(Truncated(json_dumps(v), n), TRUE, 0, 1, 1, 0) :
              v \in RenderedValues, n \in 1..2}
    \cup {json_dumps(v) \o <<Ws>> \o json_dumps(v) : v \in RenderedValues}

InvalidInputs == {[value |-> None, text |-> Str(x)] : x \in InvalidTexts}

ParseStep ==
    /\ pc = "parse"
    /\ pout' = _parse_response(ptext)
    /\ pc' = "parsed"
    /\ UNCHANGED <<items, idx, results, title, extractVars, exc, callLog, validatorVars,
                   ptext, pvalue, scorerVars, cliVars>>

InitParse ==
    /\ \E i \in FencedInputs \cup InvalidInputs : ptext = i.text /\ pvalue = i.value
    /\ pout = None
    /\ pc = "parse"
    /\ ExtractorIdle /\ ValidatorIdle /\ ScorerIdle /\ CliIdle

NextParse == ParseStep

SpecParse == InitParse /\ [][NextParse]_vars

-----------------------------------------------------------------------------
(* Python float arithmetic: IEEE 754 binary64, round to nearest, ties to     *)
(* even.  The operations the rates use: int / int, float * 100, float + float *)
(* and the order of floats.                                                    *)

Zeros(n) == [i \in 1..n |-> 0]

\* a double is 0.b1 b2 ... b53 (base 2) times 2^exp with b1 = 1, or zero
Double(e, bits) == [exp |-> e, man |-> bits]
Zero == Double(0, Zeros(Precision))

\* the sum of two bit strings read as integers, one bit longer than the longer
AddInts(a, b) ==
    LET n == IF Len(a) > Len(b) THEN Len(a) ELSE Len(b)
        x == Zeros(n - Len(a)) \o a
        y == Zeros(n - Len(b)) \o b
        \* the carry into position i comes from the nearest lower position
        \* that does not just pass a carry on
        carry(i) ==
            LET S == {j \in (i + 1)..n : x[j] + y[j] # 1}
            IN  IF S = {} THEN 0
                ELSE LET j == CHOOSE j \in S : \A k \in (i + 1)..(j - 1) : x[k] + y[k] = 1
                     IN  IF x[j] + y[j] = 2 THEN 1 ELSE 0
    IN  [i \in 1..(n + 1) |->
            IF i = 1 THEN carry(0) ELSE (x[i - 1] + y[i - 1] + carry(i - 1)) % 2]

\* a bit string times 100 = 64 + 32 + 4
Hundredfold(a) == AddInts(AddInts(a \o Zeros(6), a \o Zeros(5)), a \o Zeros(2))

LeadingZeros(a) == Cardinality({i \in 1..Len(a) : \A j \in 1..i : a[j] = 0})

\* round to nearest, ties to even: 0.bits * 2^e with any number of bits
Round(e, bits) ==
    LET z == LeadingZeros(bits)
        b == SubSeq(bits, z + 1, Len(bits))
        x == e - z
    IN  IF b = <<>> THEN Zero
        ELSE IF Len(b) <= Precision THEN Double(x, b \o Zeros(Precision - Len(b)))
        ELSE LET kept == SubSeq(b, 1, Precision)
                 guard == b[Precision + 1]
                 sticky == \E i \in (Precision + 2)..Len(b) : b[i] = 1
                 up == guard = 1 /\ (sticky \/ kept[Precision] = 1)
                 inc == AddInts(kept, <<1>>)
             IN  IF ~up THEN Double(x, kept)
                 ELSE IF inc[1] = 1 THEN Double(x + 1, SubSeq(inc, 1, Precision))
                 ELSE Double(x, Tail(inc))

\* 2^i modulo d
RECURSIVE Pow2Mod(_, _)
Pow2Mod(i, d) ==
    IF i = 0 THEN 1 % d
    ELSE LET h == Pow2Mod(i \div 2, d)
         IN  (h * h * (IF i % 2 = 1 THEN 2 ELSE 1)) % d

\* the first n bits of the fraction r / d (r < d), then one more bit that
\* tells whether anything is left
QuotientBits(r, d, n) ==
    [i \in 1..(n + 1) |->
        IF i <= n THEN (2 * ((r * Pow2Mod(i - 1, d)) % d)) \div d
        ELSE IF (r * Pow2Mod(n, d)) % d # 0 THEN 1 ELSE 0]

\* int / int
truediv(a, d) == Round(1, <<a \div d>> \o QuotientBits(a % d, d, Precision + 8))

\* float * 100
float_times_100(x) == LET p == Hundredfold(x.man) IN Round(x.exp + Len(p) - Precision, p)

\* float + float
float_add(x, y) ==
    LET lo == IF x.exp < y.exp THEN x.exp ELSE y.exp
        s == AddInts(x.man \o Zeros(x.exp - lo), y.man \o Zeros(y.exp - lo))
    IN  IF x = Zero THEN y ELSE IF y = Zero THEN x
        ELSE Round(lo - Precision + Len(s), s)

\* the next double above x
nextafter(x) ==
    IF x = Zero THEN Double(-1073, <<1>> \o Zeros(Precision - 1))
    ELSE Round(x.exp + 1, AddInts(x.man, <<1>>))

float_less(x, y) ==
    IF y = Zero THEN FALSE
    ELSE IF x = Zero THEN TRUE
    ELSE \/ x.exp < y.exp
         \/ /\ x.exp = y.exp
            /\ \E i \in 1..Precision :
                  x.man[i] < y.man[i] /\ \A j \in 1..(i - 1) : x.man[j] = y.man[j]

-----------------------------------------------------------------------------
(* evaluation.py: the scorers.  A Python float is the exact fraction it      *)
(* stands for, kept in lowest terms: [num, den]; a rate carries with it, as  *)
(* float, the double the code computes.                                      *)

RECURSIVE GCD(_, _)
GCD(a, b) == IF b = 0 THEN a ELSE GCD(b, a % b)

Frac(n, d) == LET g == GCD(n, d) IN [num |-> n \div g, den |-> d \div g]
Times(f, k) == Frac(f.num * k, f.den)
Over(f, k) == Frac(f.num, f.den * k)
Plus(f, g) == Frac(f.num * g.den + g.num * f.den, f.den * g.den)

\* sum(scores): a float when the list holds floats
RECURSIVE sum(_)
sum(xs) == IF xs = <<>> THEN Frac(0, 1) ELSE Plus(Head(xs), sum(Tail(xs)))

\* str.lower on the words of the model
lower(w) ==
    CASE w = "Drama" -> "drama"
      [] w = "DRAMA" -> "drama"
      [] w = "Thriller" -> "thriller"
      [] w = "Comedy" -> "comedy"
      [] w = "Dark" -> "dark"
      [] w = "Violence" -> "violence"
      [] OTHER -> w

\* the record of a validated mapping with the given fields
Metadata(genres, themes, mood, target_audience, content_warnings) ==
    ContentMetadata(
        [n \in FieldNames |->
            CASE n = "genres" -> JList([i \in 1..Len(genres) |-> JStr(genres[i])])
              [] n = "themes" -> JList([i \in 1..Len(themes) |-> JStr(themes[i])])
              [] n = "mood" -> JStr(mood)
              [] n = "target_audience" -> JStr(target_audience)
              [] n = "content_warnings" ->
                     JList([i \in 1..Len(content_warnings) |->
                               JStr(content_warnings[i])])]).val

\* metadata.genres, metadata.mood, ...: the field as Python strings
ListField(metadata, n) ==
    [i \in 1..Len(metadata.val[n].val) |-> metadata.val[n].val[i].val]
StrField(metadata, n) == metadata.val[n].val

MetaA == Metadata(<<"Drama", "Thriller">>, <<"survival">>, "dark", "adults", <<>>)
MetaB == Metadata(<<"drama">>, <<>>, "Dark", "teens", <<"violence">>)
MetaC == Metadata(<<"Comedy">>, <<"love">>, "light", "adults", <<"Violence", "fear">>)

\* the results a batch can hold for the scorers: what extract_batch appends
ScorerTitles == {"Dark", "Heist"}
ScorerResults ==
    {WithItem(e, t, "A dark thriller") :
        e \in {FailureEnvelope(ProseText, CallValueError),
                SuccessEnvelope(MetaA, FencedValidText, 0),
                SuccessEnvelope(MetaB, FencedValidText, 1),
                SuccessEnvelope(MetaC, FencedValidText, 2)},
        t \in ScorerTitles}

\* x / len(results) * 100: the double, with the exact fraction it stands for
Percentage(x, n) ==
    LET f == Times(Frac(x, n), 100)
    IN  [num |-> f.num, den |-> f.den, float |-> float_times_100(truediv(x, n))]

\* return 0.0
ZeroRate == [num |-> 0, den |-> 1, float |-> Zero]

\* a scorer that counts every success, retried or not
schema_compliance_rate_any_success(results_) ==
    IF results_ = <<>> THEN ZeroRate
    ELSE Percentage(Cardinality({i \in 1..Len(results_) : results_[i].success}),
                    Len(results_))

schema_compliance_rate(results_) ==
    IF results_ = <<>> THEN ZeroRate
    ELSE LET first_try_success ==
                 Cardinality({i \in 1..Len(results_) :
                                 results_[i].success /\ results_[i].retries = 0})
         IN  Percentage(first_try_success, Len(results_))

overall_success_rate(results_) ==
    IF results_ = <<>> THEN ZeroRate
    ELSE LET successes == Cardinality({i \in 1..Len(results_) : results_[i].success})
         IN  Percentage(successes, Len(results_))

\* a retry rate that counts every result with retries, failed ones too
retry_rate_any_retries(results_) ==
    IF results_ = <<>> THEN ZeroRate
    ELSE Percentage(Cardinality({i \in 1..Len(results_) : results_[i].retries > 0}),
                    Len(results_))

retry_rate(results_) ==
    IF results_ = <<>> THEN ZeroRate
    ELSE LET retried ==
                 Cardinality({i \in 1..Len(results_) :
                                 results_[i].success /\ results_[i].retries > 0})
         IN  Percentage(retried, Len(results_))

-----------------------------------------------------------------------------
(* evaluation.py: genre_accuracy.  The Type label of a dataset row is a text *)
(* of words, commas and whitespace.                                           *)

Word(w) == [kind |-> "word", val |-> w]
Comma == [kind |-> "comma", val |-> ","]

set(xs) == {xs[i] : i \in 1..Len(xs)}

\* str.lower on a text
text_lower(s) ==
    [i \in 1..Len(s) |-> IF s[i].kind = "word" THEN Word(lower(s[i].val)) ELSE s[i]]

\* str.split(",")
RECURSIVE split(_)
split(s) ==
    IF \A i \in 1..Len(s) : s[i] # Comma THEN <<s>>
    ELSE LET i == CHOOSE i \in 1..Len(s) :
                      s[i] = Comma /\ \A j \in 1..(i - 1) : s[j] # Comma
         IN  <<SubSeq(s, 1, i - 1)>> \o split(SubSeq(s, i + 1, Len(s)))

\* the Python string of a text
RECURSIVE join(_)
join(s) == IF s = <<>> THEN "" ELSE Head(s).val \o join(Tail(s))

\* df[df["Title"] == title]: the rows with that title, in order
RowsWithTitle(df_, title_) == SelectSeq(df_, LAMBDA row : row.Title = title_)

\* [g.lower() for g in result["metadata"].genres]
ExtractedGenres(result) ==
    LET genres == ListField(result.metadata, "genres")
    IN  [i \in 1..Len(genres) |-> lower(genres[i])]

\* the genres of the first row with the result's title
ActualGenres(result, df_) ==
    LET row == RowsWithTitle(df_, result.title)
        actual_type == strip(text_lower(row[1].Type.val))
        pieces == split(actual_type)
    IN  [i \in 1..Len(pieces) |-> join(text_lower(strip(pieces[i])))]

\* a comparison that asks every extracted genre to be among the actual ones
has_match_all(extracted_genres, actual_genres) ==
    set(extracted_genres) \subseteq set(actual_genres)

has_match(extracted_genres, actual_genres) ==
    LET overlap == set(extracted_genres) \cap set(actual_genres)
    IN  Cardinality(overlap) > 0

\* the details list: one entry per successful result with a row, in order
RECURSIVE GenreDetails(_, _)
GenreDetails(results_, df_) ==
    IF results_ = <<>> THEN <<>>
    ELSE LET result == Head(results_)
             rest == GenreDetails(Tail(results_), df_)
         IN  IF ~result.success THEN rest
             ELSE IF RowsWithTitle(df_, result.title) = <<>> THEN rest
             ELSE <<[title |-> result.title,
                     extracted |-> ExtractedGenres(result),
                     actual |-> ActualGenres(result, df_),
                     match |-> has_match(ExtractedGenres(result),
                                         ActualGenres(result, df_))]>> \o rest

genre_accuracy(results_, df_) ==
    LET details == GenreDetails(results_, df_)
        total == Len(details)
        matches == Cardinality({i \in 1..total : details[i].match})
    IN  [accuracy |-> IF total > 0 THEN Times(Frac(matches, total), 100) ELSE Frac(0, 1),
         matches |-> matches,
         total |-> total,
         details |-> details]

\* the datasets of the model: rows of Title and Type
Row(t, type) == [Title |-> t, Description |-> "A dark thriller", Type |-> Str(type)]
Datasets ==
    {<<>>,
     <<Row("Dark", <<Word("Drama"), Comma, Ws, Word("Thriller")>>),
       Row("Dark", <<Word("Comedy")>>)>>,
     <<Row("Heist", <<Ws, Word("comedy"), Ws>>),
       Row("Dark", <<Word("DRAMA"), Comma, Word("Horror")>>)>>,
     <<Row("Heist", <<Word("Horror")>>)>>}

-----------------------------------------------------------------------------
(* evaluation.py: manual_accuracy *)

field_scores_keys == <<"genres", "themes", "mood", "target_audience", "content_warnings">>

\* a lookup that takes the last result of that title
MatchingResultLast(results_, title_) ==
    LET found == SelectSeq(results_, LAMBDA r : r.title = title_)
    IN  IF found = <<>> THEN None ELSE found[Len(found)]

\* next((r for r in results if r["title"] == title), None)
MatchingResult(results_, title_) ==
    LET found == SelectSeq(results_, LAMBDA r : r.title = title_)
    IN  IF found = <<>> THEN None ELSE found[1]

\* set(g.lower() for g in ...)
lower_set(xs) == {lower(xs[i]) : i \in 1..Len(xs)}

\* an overlap score that gives 0.0 to two empty sets
overlap_score_empty_zero(ext, exp) ==
    IF ext \cup exp # {}
    THEN Frac(Cardinality(ext \cap exp), Cardinality(ext \cup exp))
    ELSE Frac(0, 1)

\* genre_score, theme_score, warning_score
overlap_score(ext, exp) ==
    IF ext \cup exp # {}
    THEN Frac(Cardinality(ext \cap exp), Cardinality(ext \cup exp))
    ELSE Frac(1, 1)

\* mood_score, audience_score
exact_score(ext, exp) == IF lower(ext) = lower(exp) THEN Frac(1, 1) ELSE Frac(0, 1)

model_dump(metadata) == JDict(metadata.val)

\* an annotation is scored when the first result of its title succeeded
Scored(results_, annotation) ==
    LET result == MatchingResult(results_, annotation.title)
    IN  result # None /\ result.success

ItemScores(extracted, expected) ==
    [f \in set(field_scores_keys) |->
        IF f \in {"mood", "target_audience"}
        THEN exact_score(StrField(extracted, f), StrField(expected, f))
        ELSE overlap_score(lower_set(ListField(extracted, f)),
                           lower_set(ListField(expected, f)))]

\* field_scores = {...: []}; comparison_details = []
LoopStart ==
    [field_scores |-> [f \in set(field_scores_keys) |-> <<>>],
     comparison_details |-> <<>>]

\* a loop body that records a content_warnings score only when there are warnings
LoopBodyWarningsIfAny(acc, results_, annotation) ==
    IF ~Scored(results_, annotation) THEN acc
    ELSE LET extracted == MatchingResult(results_, annotation.title).metadata
             expected == annotation.expected
             scores == ItemScores(extracted, expected)
             none == /\ ListField(extracted, "content_warnings") = <<>>
                     /\ ListField(expected, "content_warnings") = <<>>
         IN  [field_scores |->
                 [f \in set(field_scores_keys) |->
                     IF f = "content_warnings" /\ none THEN acc.field_scores[f]
                     ELSE Append(acc.field_scores[f], scores[f])],
              comparison_details |->
                 Append(acc.comparison_details,
                        [title |-> annotation.title,
                         extracted |-> model_dump(extracted),
                         expected |-> model_dump(expected),
                         scores |-> scores])]

\* one iteration of the loop over annotations: continue, or five appends to
\* field_scores and one to comparison_details
LoopBody(acc, results_, annotation) ==
    IF ~Scored(results_, annotation) THEN acc
    ELSE LET extracted == MatchingResult(results_, annotation.title).metadata
             expected == annotation.expected
             scores == ItemScores(extracted, expected)
         IN  [field_scores |->
                 [f \in set(field_scores_keys) |-> Append(acc.field_scores[f], scores[f])],
              comparison_details |->
                 Append(acc.comparison_details,
                        [title |-> annotation.title,
                         extracted |-> model_dump(extracted),
                         expected |-> model_dump(expected),
                         scores |-> scores])]

\* for annotation in annotations
RECURSIVE Loop(_, _, _)
Loop(acc, results_, annotations_) ==
    IF annotations_ = <<>> THEN acc
    ELSE Loop(LoopBody(acc, results_, Head(annotations_)), results_, Tail(annotations_))

\* comparison_details after the loop: one record per scored annotation, in order
ComparisonDetails(results_, annotations_) ==
    Loop(LoopStart, results_, annotations_).comparison_details

\* field_scores[field] after the loop
FieldScores(results_, annotations_, f) ==
    Loop(LoopStart, results_, annotations_).field_scores[f]

\* an average that takes a field without scores for a perfect one
FieldAverageEmptyFull(scores) ==
    IF scores # <<>> THEN Times(Over(sum(scores), Len(scores)), 100) ELSE Frac(100, 1)

FieldAverage(scores) ==
    IF scores # <<>> THEN Times(Over(sum(scores), Len(scores)), 100) ELSE Frac(0, 1)

\* an overall score that counts the overall entry among the averages
overall_of_six(avg_scores) ==
    Over(sum([i \in 1..Len(field_scores_keys) |-> avg_scores[field_scores_keys[i]]]),
         Len(field_scores_keys) + 1)

\* sum(avg_scores.values()) / len(avg_scores)
overall(avg_scores) ==
    Over(sum([i \in 1..Len(field_scores_keys) |-> avg_scores[field_scores_keys[i]]]),
         Len(field_scores_keys))

manual_accuracy(results_, annotations_) ==
    LET details == ComparisonDetails(results_, annotations_)
        avg_scores == [f \in set(field_scores_keys) |->
                          FieldAverage(FieldScores(results_, annotations_, f))]
    IN  [average_scores |->
             [f \in set(field_scores_keys) \cup {"overall"} |->
                 IF f = "overall" THEN overall(avg_scores) ELSE avg_scores[f]],
         details |-> details]

\* the annotations of the model: title, description, expected record
Annotation(t, expected) ==
    [title |-> t, description |-> "A dark thriller", expected |-> expected]
AnnotationPool ==
    {Annotation("Dark", MetaA), Annotation("Heist", MetaB), Annotation("Lost", MetaC)}

-----------------------------------------------------------------------------
(* Specification of the rate scorers alone, over every bounded results list *)

Returned(fn, v) == [fn |-> fn, val |-> v]

ScoreCompliance ==
    /\ pc = "score"
    /\ sout' = Returned("schema_compliance_rate", schema_compliance_rate(sresults))
    /\ pc' = "scored"
    /\ UNCHANGED <<items, idx, results, title, extractVars, exc, callLog, validatorVars,
                   parserVars, sresults, df, annotations, cliVars>>

ScoreOverall ==
    /\ pc = "score"
    /\ sout' = Returned("overall_success_rate", overall_success_rate(sresults))
    /\ pc' = "scored"
    /\ UNCHANGED <<items, idx, results, title, extractVars, exc, callLog, validatorVars,
                   parserVars, sresults, df, annotations, cliVars>>

ScoreRetry ==
    /\ pc = "score"
    /\ sout' = Returned("retry_rate", retry_rate(sresults))
    /\ pc' = "scored"
    /\ UNCHANGED <<items, idx, results, title, extractVars, exc, callLog, validatorVars,
                   parserVars, sresults, df, annotations, cliVars>>

\* the rates read success and retries only: results of one title
RateResults == {r \in ScorerResults : r.title = "Dark"}

InitRates ==
    /\ sresults \in SeqsUpTo(RateResults, MaxBatch)
    /\ df = <<>>
    /\ annotations = <<>>
    /\ sout = None
    /\ pc = "score"
    /\ ExtractorIdle /\ ValidatorIdle /\ ParserIdle /\ CliIdle

NextRates ==
    \/ ScoreCompliance
    \/ ScoreOverall
    \/ ScoreRetry

SpecRates == InitRates /\ [][NextRates]_vars

-----------------------------------------------------------------------------
(* Specification of genre_accuracy alone *)

ScoreGenre ==
    /\ pc = "score"
    /\ sout' = Returned("genre_accuracy", genre_accuracy(sresults, df))
    /\ pc' = "scored"
    /\ UNCHANGED <<items, idx, results, title, extractVars, exc, callLog, validatorVars,
                   parserVars, sresults, df, annotations, cliVars>>

InitGenre ==
    /\ sresults \in SeqsUpTo(ScorerResults, MaxResults)
    /\ df \in Datasets
    /\ annotations = <<>>
    /\ sout = None
    /\ pc = "score"
    /\ ExtractorIdle /\ ValidatorIdle /\ ParserIdle /\ CliIdle

NextGenre == ScoreGenre

SpecGenre == InitGenre /\ [][NextGenre]_vars

-----------------------------------------------------------------------------
(* Specification of manual_accuracy alone *)

\* a manual_accuracy that pops the annotations off the list as it reads them
ScoreManualDraining ==
    /\ pc = "score"
    /\ sout' = Returned("manual_accuracy", manual_accuracy(sresults, annotations))
    /\ annotations' = <<>>
    /\ pc' = "scored"
    /\ UNCHANGED <<items, idx, results, title, extractVars, exc, callLog, validatorVars,
                   parserVars, sresults, df, cliVars>>

ScoreManual ==
    /\ pc = "score"
    /\ sout' = Returned("manual_accuracy", manual_accuracy(sresults, annotations))
    /\ pc' = "scored"
    /\ UNCHANGED <<items, idx, results, title, extractVars, exc, callLog, validatorVars,
                   parserVars, sresults, df, annotations, cliVars>>

InitManual ==
    /\ sresults \in SeqsUpTo(ScorerResults, MaxResults)
    /\ df = <<>>
    /\ annotations \in SeqsUpTo(AnnotationPool, MaxAnnotations)
    /\ sout = None
    /\ pc = "score"
    /\ ExtractorIdle /\ ValidatorIdle /\ ParserIdle /\ CliIdle

NextManual == ScoreManual

SpecManual == InitManual /\ [][NextManual]_vars

-----------------------------------------------------------------------------
(* Specification of the five scorers side by side, each called on the same   *)
(* results, dataset and annotations                                           *)

\* the datasets about the one title of RateResults, the empty one among them
RateDatasets == {d \in Datasets : \A r \in 1..Len(d) : d[r].Title = "Dark"}

InitScorers ==
    /\ sresults \in SeqsUpTo(RateResults, MaxResults)
    /\ df \in RateDatasets
    /\ annotations \in SeqsUpTo(AnnotationPool, MaxInputs)
    /\ sout = None
    /\ pc = "score"
    /\ ExtractorIdle /\ ValidatorIdle /\ ParserIdle /\ CliIdle

NextScorers ==
    \/ ScoreCompliance
    \/ ScoreOverall
    \/ ScoreRetry
    \/ ScoreGenre
    \/ ScoreManual

SpecScorers == InitScorers /\ [][NextScorers]_vars

-----------------------------------------------------------------------------
(* evaluation.py: run_evaluation, the report *)

\* the report dict, without its timestamp
Report(annotated_results, sample_results, df_, annotations_) ==
    LET all_results == annotated_results \o sample_results
        failures == SelectSeq(all_results, LAMBDA r : ~r.success)
    IN  [total_samples |-> Len(all_results),
         metrics |->
             [schema_compliance_first_try |-> schema_compliance_rate(all_results),
              overall_success_rate |-> overall_success_rate(all_results),
              retry_rate |-> retry_rate(all_results),
              genre_accuracy |-> genre_accuracy(sample_results, df_).accuracy,
              manual_accuracy |->
                  manual_accuracy(annotated_results, annotations_).average_scores],
         failure_count |-> Len(failures),
         failures |-> [i \in 1..Len(failures) |->
                          [title |-> failures[i].title, error |-> failures[i].error]]]

-----------------------------------------------------------------------------
(* app.py: the command line.  pc is "main" at the dispatch, the name of the   *)
(* subcommand's function at its entry, "input" at the prompt of the           *)
(* interactive loop, "exit" when the process has ended; while a subcommand    *)
(* extracts, pc follows extract_batch and extract.  stdout holds the lines    *)
(* app.py and run_evaluation print themselves.                                *)

Line(kind, val) == [kind |-> kind, val |-> val]
MissingKeyLine == Line("error", "ERROR: Set ANTHROPIC_API_KEY in your .env file")

\* a credential check that never fires
NotSetNever(key) == FALSE

\* not API_KEY: the variable is unset or the empty string
NotSet(key) == key \in {None, JStr("")}

\* NetflixExtractor(api_key=API_KEY)
NetflixExtractor(api_key) ==
    [kind |-> "NetflixExtractor", api_key |-> api_key, max_retries |-> max_retries]

\* load_data() and the annotations of data/ground_truth.py
CliDataset ==
    <<Row("Dark", <<Word("Drama"), Comma, Ws, Word("Thriller")>>),
      Row("Heist", <<Word("Comedy")>>)>>
CliAnnotations == <<Annotation("Dark", MetaA)>>

RowItem(row) == [title |-> row.Title, description |-> row.Description]

\* the command lines and the credentials of the model
CommandLines == {<<>>, <<"test">>, <<"evaluate">>, <<"extract">>, <<"serve">>}
Credentials == {None, JStr(""), JStr("sk-key")}
InputLines == {"quit", "A dark thriller"}

Subcommand == lower(command[1])

cliOnly == <<items, idx, results, title, extractVars, exc, callLog, validatorVars,
             parserVars, sresults, df, annotations, sout, API_KEY, command, extractor>>

\* if __name__ == "__main__"
Main ==
    /\ pc = "main"
    /\ IF Len(command) < 1
       THEN /\ stdout' = Append(stdout, Line("doc", "usage"))
            /\ pc' = "exit"
       ELSE IF Subcommand = "test" THEN pc' = "test_extraction" /\ UNCHANGED stdout
       ELSE IF Subcommand = "evaluate"
            THEN pc' = "run_full_evaluation" /\ UNCHANGED stdout
       ELSE IF Subcommand = "extract" THEN pc' = "extract_single" /\ UNCHANGED stdout
       ELSE /\ stdout' = stdout \o <<Line("unknown", Subcommand), Line("doc", "usage")>>
            /\ pc' = "exit"
    /\ UNCHANGED cliOnly

\* test_extraction up to its extract_batch call
TestExtraction ==
    /\ pc = "test_extraction"
    /\ IF NotSet(API_KEY)
       THEN /\ stdout' = Append(stdout, MissingKeyLine)
            /\ pc' = "exit"
            /\ UNCHANGED <<df, extractor, items>>
       ELSE /\ df' = CliDataset
            /\ extractor' = NetflixExtractor(API_KEY)
            /\ items' = [i \in 1..Len(CliDataset) |-> RowItem(CliDataset[i])]
            /\ stdout' = Append(stdout, Line("testing", Len(CliDataset)))
            /\ pc' = "batch"
    /\ UNCHANGED <<idx, results, title, extractVars, exc, callLog, validatorVars,
                   parserVars, sresults, annotations, sout, API_KEY, command>>

\* test_extraction after extract_batch returned: the results and the summary
TestExtractionReport ==
    /\ pc = "done" /\ Subcommand = "test"
    /\ stdout' = stdout
           \o [i \in 1..Len(results) |->
                  Line("result", [title |-> results[i].title,
                                  success |-> results[i].success])]
           \o <<Line("summary",
                     [successes |-> Cardinality({i \in 1..Len(results) :
                                                    results[i].success}),
                      total |-> Len(results)])>>
    /\ pc' = "exit"
    /\ UNCHANGED cliOnly

\* run_full_evaluation and run_evaluation up to the first extract_batch call
RunFullEvaluation ==
    /\ pc = "run_full_evaluation"
    /\ IF NotSet(API_KEY)
       THEN /\ stdout' = Append(stdout, MissingKeyLine)
            /\ pc' = "exit"
            /\ UNCHANGED <<df, annotations, extractor, items>>
       ELSE /\ annotations' = CliAnnotations
            /\ df' = CliDataset
            /\ extractor' = NetflixExtractor(API_KEY)
            /\ items' = [i \in 1..Len(CliAnnotations) |->
                            [title |-> CliAnnotations[i].title,
                             description |-> CliAnnotations[i].description]]
            /\ stdout' = stdout \o <<Line("banner", "EVALUATION REPORT"),
                                     Line("annotated", Len(CliAnnotations))>>
            /\ pc' = "batch"
    /\ UNCHANGED <<idx, results, title, extractVars, exc, callLog, validatorVars,
                   parserVars, sresults, sout, API_KEY, command>>

\* run_evaluation between its two extract_batch calls: a sample of one row
EvaluateSamples ==
    /\ pc = "done" /\ Subcommand = "evaluate"
    /\ stdout[Len(stdout)].kind = "annotated"
    /\ sresults' = results
    /\ \E r \in 1..Len(df) : items' = <<RowItem(df[r])>>
    /\ results' = <<>>
    /\ idx' = 0
    /\ stdout' = Append(stdout, Line("sample", 1))
    /\ pc' = "batch"
    /\ UNCHANGED <<title, extractVars, exc, callLog, validatorVars, parserVars, df,
                   annotations, sout, API_KEY, command, extractor>>

\* run_evaluation after the second extract_batch call: metrics and report
EvaluateReport ==
    /\ pc = "done" /\ Subcommand = "evaluate"
    /\ stdout[Len(stdout)].kind = "sample"
    /\ sout' = Report(sresults, results, df, annotations)
    /\ stdout' = stdout \o <<Line("metrics", sout'.metrics),
                             Line("saved", "data/evaluation_report.json")>>
    /\ pc' = "exit"
    /\ UNCHANGED <<items, idx, results, title, extractVars, exc, callLog, validatorVars,
                   parserVars, sresults, df, annotations, API_KEY, command, extractor>>

\* extract_single up to its loop
ExtractSingle ==
    /\ pc = "extract_single"
    /\ IF NotSet(API_KEY)
       THEN /\ stdout' = Append(stdout, MissingKeyLine)
            /\ pc' = "exit"
            /\ UNCHANGED extractor
       ELSE /\ extractor' = NetflixExtractor(API_KEY)
            /\ stdout' = Append(stdout, Line("prompt", "Enter a description"))
            /\ pc' = "input"
    /\ UNCHANGED <<items, idx, results, title, extractVars, exc, callLog, validatorVars,
                   parserVars, scorerVars, API_KEY, command>>

\* one line read by the loop: a quit word ends it, anything else is extracted
ReadInput ==
    /\ pc = "input"
    /\ \E line \in InputLines :
          IF lower(line) \in {"quit", "exit", "q"}
          THEN /\ pc' = "exit"
               /\ UNCHANGED extractVars
          ELSE /\ idx < MaxInputs
               /\ description' = line
               /\ prompt' = EXTRACTION_PROMPT(line, _get_schema_string)
               /\ last_error' = None
               /\ attempt' = 0
               /\ raw_response' = Unbound
               /\ ret' = None
               /\ hist' = <<>>
               /\ pc' = "attempt"
    /\ UNCHANGED <<items, idx, results, title, exc, callLog, validatorVars, parserVars,
                   scorerVars, cliVars>>

\* the loop prints what extract returned and prompts again
PrintResult ==
    /\ pc = "returned" /\ Subcommand = "extract"
    /\ stdout' = Append(stdout, Line("result", [title |-> description,
                                                success |-> ret.success]))
    /\ idx' = idx + 1
    /\ pc' = "input"
    /\ prompt' = None
    /\ last_error' = None
    /\ attempt' = 0
    /\ raw_response' = Unbound
    /\ ret' = None
    /\ hist' = <<>>
    /\ UNCHANGED <<items, results, title, description, exc, callLog, validatorVars,
                   parserVars, scorerVars, API_KEY, command, extractor>>

\* extract_batch appends only when it is the caller of extract
CliBatchAppend == pc = "returned" /\ Subcommand # "extract" /\ BatchAppend

InitCli ==
    /\ API_KEY \in Credentials
    /\ command \in CommandLines
    /\ extractor = None
    /\ stdout = <<>>
    /\ pc = "main"
    /\ ExtractorIdle /\ ValidatorIdle /\ ParserIdle /\ ScorerIdle

NextCli ==
    \/ Main
    \/ TestExtraction
    \/ TestExtractionReport
    \/ RunFullEvaluation
    \/ EvaluateSamples
    \/ EvaluateReport
    \/ ExtractSingle
    \/ ReadInput
    \/ PrintResult
    \/ BatchNext
    \/ AttemptReturn
    \/ AttemptCaught
    \/ AttemptPropagate
    \/ ExtractFail
    \/ CliBatchAppend
    \/ BatchReturn

SpecCli == InitCli /\ [][NextCli]_vars

-----------------------------------------------------------------------------
(* Vocabulary of the properties *)

\* the model call of a history entry returned a text
ReturnedText(h) == h.call.kind = "ok"

\* the attempt failed with the parser's error or the schema's validation error
FailsParseOrValidate(h) ==
    /\ ReturnedText(h)
    /\ LET data == _parse_response(h.call.val)
       IN  \/ data.kind = "raise"
           \/ data.val.kind = "dict" /\ ContentMetadata(data.val.val).kind = "raise"

\* the attempt's response parses to a mapping that validates
ParsesAndValidates(h) ==
    /\ ReturnedText(h)
    /\ LET data == _parse_response(h.call.val)
       IN  /\ data.kind = "ok"
           /\ data.val.kind = "dict"
           /\ ContentMetadata(data.val.val).kind = "ok"

\* the last text a model call of the running extract call returned, None if none did
RECURSIVE LastText(_)
LastText(h) ==
    IF h = <<>> THEN None
    ELSE IF ReturnedText(h[Len(h)]) THEN h[Len(h)].call.val
    ELSE LastText(SubSeq(h, 1, Len(h) - 1))

\* a record whose five fields are all present and of the declared types
IsFullRecord(m) ==
    /\ m.kind = "ContentMetadata"
    /\ DOMAIN m.val = FieldNames
    /\ \A n \in ListFields :
          m.val[n].kind = "list" /\ \A i \in 1..Len(m.val[n].val) : m.val[n].val[i].kind = "str"
    /\ \A n \in StrFields : m.val[n].kind = "str"

\* the envelopes extract has returned so far: the pending one and the collected ones
ReturnedEnvelopes ==
    (IF pc = "returned" THEN {ret} ELSE {})
    \cup {[metadata |-> results[i].metadata, raw_response |-> results[i].raw_response,
           retries |-> results[i].retries, success |-> results[i].success,
           error |-> results[i].error] : i \in 1..Len(results)}

\* the four required fields are present with the declared types
RequiredFieldsOk(m) ==
    /\ \A n \in {"genres", "themes"} :
          /\ n \in DOMAIN m
          /\ m[n].kind = "list" /\ \A i \in 1..Len(m[n].val) : m[n].val[i].kind = "str"
    /\ \A n \in {"mood", "target_audience"} : n \in DOMAIN m /\ m[n].kind = "str"

\* the record the validator produced equals the mapping, field by field
RecordEqualsInput(m) ==
    /\ vout.kind = "ok"
    /\ vout.val.kind = "ContentMetadata"
    /\ \A n \in {"genres", "themes", "mood", "target_audience"} : vout.val.val[n] = m[n]
    /\ IF "content_warnings" \in DOMAIN m
       THEN vout.val.val["content_warnings"] = m["content_warnings"]
       ELSE vout.val.val["content_warnings"] = JList(<<>>)

-----------------------------------------------------------------------------
(* Properties *)

\* C1: extract never raises to its caller: whenever every model call of an
\* extract call returned a text (unparsable, a JSON value that is not an object,
\* an object failing validation, or a valid object), the call ends by returning an
\* envelope, never by an exception.
C1_ExtractNeverRaises ==
    (\A k \in 1..Len(hist) : ReturnedText(hist[k])) => pc # "raised"

\* C2: when the first k attempts fail to parse or validate and attempt k returns
\* a response that parses and validates, extract returns success with retries = k.
C2_SuccessAtAttemptK ==
    (/\ hist # <<>>
     /\ \A j \in 1..(Len(hist) - 1) : FailsParseOrValidate(hist[j])
     /\ ParsesAndValidates(hist[Len(hist)]))
    => (/\ pc = "returned"
        /\ ret.success = TRUE
        /\ ret.retries = Len(hist) - 1
        /\ Len(hist) - 1 \in 0..max_retries)

\* C2 witness: an unparsable response followed by a valid one gave retries = 1
C2_Witness ==
    /\ pc = "returned"
    /\ Len(hist) = 2
    /\ hist[1].call = Ok(ProseText)
    /\ ParsesAndValidates(hist[2])
    /\ ret.success = TRUE /\ ret.retries = 1

\* C3: when all 1 + max_retries attempts fail to parse or validate, extract
\* returns success = false, retries = max_retries, no metadata, and the non-empty
\* message of the error of the last attempt.
C3_FailureAfterExhaustion ==
    (/\ Len(hist) = 1 + max_retries
     /\ \A j \in 1..Len(hist) : FailsParseOrValidate(hist[j]))
    => \/ pc = "attempt" /\ attempt = 1 + max_retries
       \/ /\ pc = "returned"
          /\ ret.success = FALSE
          /\ ret.retries = max_retries
          /\ ret.metadata = None
          /\ ret.error = hist[Len(hist)].result.val.val
          /\ ret.error.kind = "str" /\ Len(ret.error.val) > 0

\* C3 witness: three failed attempts, the last error differing from the first
C3_Witness ==
    /\ pc = "returned"
    /\ Len(hist) = 1 + max_retries
    /\ \A j \in 1..Len(hist) : FailsParseOrValidate(hist[j])
    /\ hist[1].result # hist[Len(hist)].result
    /\ ret.success = FALSE
    /\ ret.error = hist[Len(hist)].result.val.val

\* C4: every extract call makes at most 1 + max_retries = 3 model calls and then
\* ends, whatever the collaborator returns: the number of model calls of the
\* running call never exceeds 3, it equals the loop counter while the loop runs,
\* and every step taken inside the loop either ends the call or advances the
\* counter by one towards that bound.
C4_BoundedAttempts ==
    /\ [](/\ Len(hist) <= 1 + max_retries
          /\ pc = "attempt" => (attempt = Len(hist) /\ attempt <= 1 + max_retries))
    /\ [][pc = "attempt" =>
             \/ pc' \in {"returned", "raised"}
             \/ pc' = "attempt" /\ attempt' = attempt + 1]_vars

\* C4 witness: an extract call that returned after three model calls
C4_Witness ==
    pc = "returned" /\ Len(hist) = 3 /\ \A k \in 1..3 : ReturnedText(hist[k])

\* C5: in every envelope extract returns, metadata is present iff success, error
\* is present iff not success, and a present metadata is a fully validated record.
C5_EnvelopeShape ==
    \A e \in ReturnedEnvelopes :
        /\ (e.metadata # None) <=> (e.success = TRUE)
        /\ (e.error # None) <=> (e.success = FALSE)
        /\ e.metadata # None => IsFullRecord(e.metadata)

\* C5 witness: a batch that collected both a success and a failure envelope
C5_Witness ==
    /\ \E e \in ReturnedEnvelopes : e.success = TRUE /\ IsFullRecord(e.metadata)
    /\ \E e \in ReturnedEnvelopes : e.success = FALSE /\ e.error # None

C7_PromptPerAttempt ==
    \A k \in 1..Len(hist) :
        IF k = 1
        THEN hist[k].prompt = EXTRACTION_PROMPT(description, _get_schema_string)
        ELSE /\ hist[k].prompt = RETRY_PROMPT(hist[k - 1].result.val.val, description)
             /\ hist[k].prompt.template # "EXTRACTION_PROMPT"

\* C7 witness: a third attempt whose retry prompt carries the second attempt's
\* error, which differs from the first attempt's
C7_Witness ==
    /\ Len(hist) = 3
    /\ hist[1].result # hist[2].result
    /\ hist[3].prompt = RETRY_PROMPT(hist[2].result.val.val, description)

\* C8: extract_batch returns one result per input item, in input order, result i
\* carrying the title and description of item i.
C8_OneResultPerItem ==
    /\ Len(results) = idx /\ idx <= Len(items)
    /\ pc = "done" => Len(results) = Len(items)
    /\ \A i \in 1..Len(results) :
          /\ "title" \in DOMAIN items[i] => results[i].title = items[i].title
          /\ "description" \in DOMAIN items[i] => results[i].description = items[i].description

\* C8 witness: a finished batch of two different items
C8_Witness ==
    /\ pc = "done"
    /\ Len(items) = 2 /\ items[1] # items[2]
    /\ Len(results) = 2
    /\ results[1].title # results[2].title

\* C9: whatever happens while item i is processed, every later item is still
\* processed: when the batch has ended, the model was called for every item.
\* (Stated for batches in which every model call returned a text.)
C9_LaterItemsProcessed ==
    (/\ pc \in {"done", "raised"}
     /\ \A k \in 1..Len(hist) : ReturnedText(hist[k]))
    => \A i \in 1..Len(items) : \E c \in 1..Len(callLog) : callLog[c] = i

\* C10 as stated: every mapping with the four required fields of the right types
\* yields a record equal to the input, content_warnings empty when omitted.
C10_ValidMappingAccepted ==
    (pc = "validated" /\ RequiredFieldsOk(vdata.val)) => RecordEqualsInput(vdata.val)

\* C10 amended: the same, for mappings whose content_warnings, when supplied, is a
\* sequence of strings.
C10_ValidMappingAcceptedAmended ==
    (/\ pc = "validated"
     /\ RequiredFieldsOk(vdata.val)
     /\ "content_warnings" \in DOMAIN vdata.val =>
            /\ vdata.val["content_warnings"].kind = "list"
            /\ \A i \in 1..Len(vdata.val["content_warnings"].val) :
                  vdata.val["content_warnings"].val[i].kind = "str")
    => RecordEqualsInput(vdata.val)

\* C10 witness: a validated mapping that supplies content_warnings, with an
\* extra key the schema does not know
C10_Witness ==
    /\ pc = "validated"
    /\ RequiredFieldsOk(vdata.val)
    /\ "rating" \in DOMAIN vdata.val
    /\ vdata.val["content_warnings"] = JList(<<JStr("Drama")>>)
    /\ vdata.val["genres"] # vdata.val["themes"]
    /\ RecordEqualsInput(vdata.val)

\* C11: a mapping that misses one of genres, themes, mood, target_audience, or
\* supplies one of them with the wrong shape, makes the validator raise
\* ValidationError naming every such field, and yields no record.
C11_InvalidMappingRejected ==
    (pc = "validated" /\ ~RequiredFieldsOk(vdata.val))
    => /\ vout.kind = "raise"
       /\ vout.val.kind = "ValidationError"
       /\ \A n \in {"genres", "themes", "mood", "target_audience"} :
             (n \notin DOMAIN vdata.val \/ ~FieldTypeOk(n, vdata.val[n]))
             => \E i \in 1..Len(vout.val.val.val[2]) : vout.val.val.val[2][i].loc = n

\* C11 witness: a rejected mapping that supplies genres as a string and has no mood
C11_Witness ==
    /\ pc = "validated"
    /\ "genres" \in DOMAIN vdata.val /\ vdata.val["genres"].kind = "str"
    /\ "mood" \notin DOMAIN vdata.val
    /\ "themes" \in DOMAIN vdata.val /\ IsListOfStr(vdata.val["themes"])
    /\ vout.kind = "raise" /\ vout.val.kind = "ValidationError"

\* C19: an error of the model service is not caught by the retry loop: it leaves
\* extract on the attempt where it occurs, so the failed call is the last one of
\* that extract call, and the attempt counter is the one of that attempt.
C19_ServiceErrorPropagates ==
    \A k \in 1..Len(hist) :
        (hist[k].call.kind = "raise" /\ hist[k].call.val.kind = "APIError")
        => /\ k = Len(hist)
           /\ pc = "raised"
           /\ exc = hist[k].call.val
           /\ attempt = k - 1

\* C19 witness: the service fails on the second attempt of an extract call
C19_Witness ==
    /\ pc = "raised"
    /\ Len(hist) = 2
    /\ hist[1].call.kind = "ok"
    /\ hist[2].call = Raise(ServiceError)
    /\ exc = ServiceError
    /\ attempt = 1

\* the cleaned text is one JSON value
IsJsonText(cleaned) ==
    LET body == strip(cleaned.val)
    IN  \/ Len(body) = 1 /\ body[1].kind = "json"
        \/ JsonDecode(body).kind = "ok"

\* C12: rendering a value as JSON, wrapping it in a fenced block (the opening fence
\* tagged json or not) with any whitespace around, and parsing gives the value
\* back, also when a string of the value holds a fence of backticks.
C12_ParserRoundTrip ==
    (pc = "parsed" /\ pvalue # None) => pout = Ok(pvalue)

\* C13: a text that is not one JSON value after cleaning makes _parse_response
\* raise ValueError "Invalid JSON response: ..." that carries the decoder's
\* message and the cleaned text; no value is returned for it.
C13_InvalidTextRaises ==
    (pc = "parsed" /\ ~IsJsonText(_clean_json_response(ptext)))
    => /\ pout.kind = "raise"
       /\ pout.val.kind = "ValueError"
       /\ Len(pout.val.val.val) = 4
       /\ pout.val.val.val[1] = "Invalid JSON response: "
       /\ pout.val.val.val[2] = json_loads(_clean_json_response(ptext)).val.val
       /\ pout.val.val.val[2] \in
              {Str(<<"Expecting value">>), Str(<<"Extra data">>),
               Str(<<"Unterminated string starting at">>),
               Str(<<"Expecting ',' delimiter">>)}
       /\ pout.val.val.val[4] = _clean_json_response(ptext)

\* C13 witness: a rendering cut short inside a fenced block
C13_Witness ==
    /\ pc = "parsed"
    /\ ptext = Str(<<Fence, Tag, Ws, ObjOpen("genres"), ArrOpen, Quote, Prose, Quote,
                     Ws, Fence>>)
    /\ pout.kind = "raise"
    /\ pout.val.val.val[4] = Str(<<ObjOpen("genres"), ArrOpen, Quote, Prose, Quote>>)

\* the number of results that succeeded on the first attempt
FirstTrySuccesses ==
    Cardinality({i \in 1..Len(sresults) :
                    sresults[i].success /\ sresults[i].retries = 0})

\* C14 as stated: for a non-empty results list schema_compliance_rate returns the
\* fraction (first-try successes) / (number of results).
C14_ComplianceIsFraction ==
    (pc = "scored" /\ sout.fn = "schema_compliance_rate" /\ sresults # <<>>)
    => sout.val.num * Len(sresults) = FirstTrySuccesses * sout.val.den

\* C14 amended: it returns that fraction as a percentage, 100 times the fraction.
C14_ComplianceIsPercentage ==
    (pc = "scored" /\ sout.fn = "schema_compliance_rate" /\ sresults # <<>>)
    => sout.val.num * Len(sresults) = 100 * FirstTrySuccesses * sout.val.den

\* C14 witness: of two successes one needed a retry, and the rate is 50
C14_Witness ==
    /\ pc = "scored" /\ sout.fn = "schema_compliance_rate"
    /\ Len(sresults) = 2
    /\ sresults[1].success /\ sresults[1].retries = 0
    /\ sresults[2].success /\ sresults[2].retries = 1
    /\ sout.val.num = 50 /\ sout.val.den = 1

\* the results genre_accuracy can compare: successful, with a dataset row of that title
ComparableResults ==
    {i \in 1..Len(sresults) :
        sresults[i].success /\ \E r \in 1..Len(df) : df[r].Title = sresults[i].title}

\* the case-folded genres of result i meet the case-folded, comma-split Type label
\* of the first row with its title
GenresMeetLabel(i) ==
    LET r == CHOOSE r \in 1..Len(df) :
                 /\ df[r].Title = sresults[i].title
                 /\ \A q \in 1..(r - 1) : df[q].Title # sresults[i].title
        label == split(text_lower(df[r].Type.val))
        labels == {join(strip(label[k])) : k \in 1..Len(label)}
        genres == ListField(sresults[i].metadata, "genres")
    IN  \E g \in 1..Len(genres) : lower(genres[g]) \in labels

\* what C15 says of the counts: total counts the comparable results, matches those
\* of them whose genres meet the label, one detail record per comparable result
GenreCountsRight ==
    /\ sout.val.total = Cardinality(ComparableResults)
    /\ sout.val.matches = Cardinality({i \in ComparableResults : GenresMeetLabel(i)})
    /\ sout.val.matches <= sout.val.total
    /\ Len(sout.val.details) = sout.val.total

\* C15 as stated: a result is comparable iff it succeeded and its title is the Title
\* of a dataset row, it is a match iff its genres meet the row's label, and the
\* accuracy is matches over comparable results.
C15_GenreAccuracyIsRatio ==
    (pc = "scored" /\ sout.fn = "genre_accuracy")
    => /\ GenreCountsRight
       /\ sout.val.total > 0 =>
              sout.val.accuracy.num * sout.val.total
                  = sout.val.matches * sout.val.accuracy.den

\* C15 amended: the same, the accuracy being the percentage 100 * matches / total,
\* and 0 when no result is comparable.
C15_GenreAccuracyIsPercentage ==
    (pc = "scored" /\ sout.fn = "genre_accuracy")
    => /\ GenreCountsRight
       /\ sout.val.total > 0 =>
              sout.val.accuracy.num * sout.val.total
                  = 100 * sout.val.matches * sout.val.accuracy.den
       /\ sout.val.total = 0 => sout.val.accuracy = Frac(0, 1)

\* C15 witness: a successful result without a row is left out, the other result's
\* title is the Title of two rows, and it matches the first row on a genre
C15_Witness ==
    /\ pc = "scored" /\ sout.fn = "genre_accuracy"
    /\ Len(sresults) = 2 /\ Len(df) = 2
    /\ df[1].Title = df[2].Title
    /\ sresults[1].title = "Heist" /\ sresults[1].success
    /\ sresults[2].title = "Dark" /\ sresults[2].metadata = MetaA
    /\ sout.val.total = 1 /\ sout.val.matches = 1
    /\ sout.val.accuracy = Frac(100, 1)

\* the case-folded set of a list field of a dumped record
DumpedSet(d, f) == {lower(d.val[f].val[i].val) : i \in 1..Len(d.val[f].val)}

ManualScored == pc = "scored" /\ sout.fn = "manual_accuracy"

\* C16: the item score of genres, themes and content_warnings is the Jaccard
\* similarity of the two case-folded sets, 1 when both are empty: identical sets
\* score 1, disjoint non-empty sets 0, and the score is symmetric in the two sets.
C16_ItemScoreIsJaccard ==
    ManualScored =>
    \A k \in 1..Len(sout.val.details) :
    \A f \in {"genres", "themes", "content_warnings"} :
        LET ext == DumpedSet(sout.val.details[k].extracted, f)
            exp == DumpedSet(sout.val.details[k].expected, f)
            score == sout.val.details[k].scores[f]
        IN  /\ ext \cup exp = {} => score = Frac(1, 1)
            /\ ext \cup exp # {} =>
                   score.num * Cardinality(ext \cup exp)
                       = Cardinality(ext \cap exp) * score.den
            /\ ext = exp => score = Frac(1, 1)
            /\ (ext # {} /\ exp # {} /\ ext \cap exp = {}) => score = Frac(0, 1)
            /\ score = overlap_score(exp, ext)

\* C16 witness: one annotation scored against an identical record (its two empty
\* warning lists score 1), another whose genres overlap by half and whose
\* warnings agree only after case folding
C16_Witness ==
    /\ ManualScored
    /\ Len(sout.val.details) = 2
    /\ DumpedSet(sout.val.details[1].extracted, "content_warnings") = {}
    /\ DumpedSet(sout.val.details[1].expected, "content_warnings") = {}
    /\ sout.val.details[1].scores["content_warnings"] = Frac(1, 1)
    /\ sout.val.details[2].extracted = model_dump(MetaC)
    /\ sout.val.details[2].expected = model_dump(MetaB)
    /\ sout.val.details[2].scores["content_warnings"] = Frac(1, 2)
    /\ sout.val.details[2].scores["genres"] = Frac(0, 1)

\* the detail records are those of the annotations that satisfy the condition, and
\* every field average is 100 times the mean of the detail records' item scores
\* (0 when there is none)
ScoresExactly(condition) ==
    /\ \A a \in 1..Len(annotations) :
          condition[a] <=> \E k \in 1..Len(sout.val.details) :
                              sout.val.details[k].title = annotations[a].title
    /\ Len(sout.val.details) = Cardinality({a \in 1..Len(annotations) : condition[a]})
    /\ \A f \in set(field_scores_keys) :
          LET n == Len(sout.val.details)
              total == sum([k \in 1..n |-> sout.val.details[k].scores[f]])
              avg == sout.val.average_scores[f]
          IN  IF n = 0 THEN avg = Frac(0, 1)
              ELSE avg.num * n * total.den = 100 * total.num * avg.den

\* C17 as stated: an annotation is scored iff some result has its title and
\* succeeded; the other annotations add to no field average and no detail record.
C17_ScoredIffSomeSuccess ==
    ManualScored =>
    ScoresExactly([a \in 1..Len(annotations) |->
                      \E i \in 1..Len(sresults) :
                          /\ sresults[i].title = annotations[a].title
                          /\ sresults[i].success])

\* C17 amended: an annotation is scored iff the first result that has its title
\* succeeded.
C17_ScoredIffFirstSucceeded ==
    ManualScored =>
    ScoresExactly([a \in 1..Len(annotations) |->
                      \E i \in 1..Len(sresults) :
                          /\ sresults[i].title = annotations[a].title
                          /\ sresults[i].success
                          /\ \A j \in 1..(i - 1) :
                                sresults[j].title # annotations[a].title])

\* C17 witness: of two annotations one has a successful result and is scored, the
\* other has only a failed result and is left out
C17_Witness ==
    /\ ManualScored
    /\ Len(annotations) = 2 /\ Len(sresults) = 2
    /\ annotations[1].title = "Dark" /\ annotations[2].title = "Heist"
    /\ sresults[1].title = "Heist" /\ ~sresults[1].success
    /\ sresults[2].title = "Dark" /\ sresults[2].success
    /\ Len(sout.val.details) = 1
    /\ sout.val.details[1].title = "Dark"

\* C18: the overall score is the unweighted mean of the five field averages.
C18_OverallIsMeanOfFive ==
    ManualScored =>
    LET avg == sout.val.average_scores
        total == Plus(avg["genres"],
                 Plus(avg["themes"],
                 Plus(avg["mood"],
                 Plus(avg["target_audience"], avg["content_warnings"]))))
    IN  /\ DOMAIN avg = {"genres", "themes", "mood", "target_audience",
                          "content_warnings", "overall"}
        /\ avg["overall"].num * 5 * total.den = total.num * avg["overall"].den

\* C18 witness: two scored annotations, field averages that differ, an overall
\* score strictly between them
C18_Witness ==
    /\ ManualScored
    /\ Len(sout.val.details) = 2
    /\ sout.val.average_scores["genres"] = Frac(50, 1)
    /\ sout.val.average_scores["mood"] = Frac(100, 1)
    /\ sout.val.average_scores["themes"] = Frac(0, 1)
    /\ sout.val.average_scores["overall"] \notin
           {Frac(0, 1), Frac(50, 1), Frac(100, 1)}

\* C20: with the credential absent, each of test, evaluate and extract reports
\* the missing credential and returns before any extraction: no extractor is
\* constructed and no model call is made, at any time.
C20_NoExtractionWithoutCredential ==
    (API_KEY \in {None, JStr("")}) =>
        /\ extractor = None
        /\ callLog = <<>> /\ hist = <<>> /\ items = <<>>
        /\ pc \in {"main", "test_extraction", "run_full_evaluation", "extract_single",
                   "exit"}
        /\ (pc = "exit" /\ command \in {<<"test">>, <<"evaluate">>, <<"extract">>})
               => stdout = <<MissingKeyLine>>

\* C20 witness: evaluate has ended with the credential unset, after the message
C20_Witness ==
    /\ API_KEY = None
    /\ command = <<"evaluate">>
    /\ pc = "exit"
    /\ stdout = <<MissingKeyLine>>
    /\ extractor = None /\ callLog = <<>>

-----------------------------------------------------------------------------
(* Claims about the order and the number of model calls *)

\* C21: extract_batch is sequential and runs each item to completion: model calls
\* are issued one at a time, each for the item right after the ones whose result
\* has been collected, so the calls are grouped by item in input order and the
\* whole retry loop of item i has ended before the first call for item i + 1.
C21_SequentialBatch ==
    /\ [](/\ \A c \in 1..(Len(callLog) - 1) : callLog[c] <= callLog[c + 1]
          /\ \A c \in 1..Len(callLog) :
                /\ callLog[c] <= Len(results) + 1
                /\ callLog[c] = Len(results) + 1 => pc \in {"attempt", "returned", "raised"})
    /\ [][callLog' # callLog =>
             /\ pc = "attempt"
             /\ callLog' = Append(callLog, Len(results) + 1)]_vars

\* C21 witness: a finished batch of two items, two calls for the first item and
\* then three for the second
C21_Witness ==
    /\ pc = "done"
    /\ Len(items) = 2
    /\ callLog = <<1, 1, 2, 2, 2>>

\* C23: an envelope extract returns on success comes after retries + 1 model
\* calls and one it returns on failure after max_retries + 1, its retries lie in
\* 0..max_retries, and no model call follows an attempt that validated.
C23_CallsMatchRetries ==
    /\ \A k \in 1..(Len(hist) - 1) : ~ParsesAndValidates(hist[k])
    /\ pc = "returned" =>
          /\ ret.success => Len(hist) = ret.retries + 1 /\ ParsesAndValidates(hist[Len(hist)])
          /\ ~ret.success => Len(hist) = max_retries + 1
    /\ \A e \in ReturnedEnvelopes : e.retries \in 0..max_retries

\* C23 witness: a failure envelope after three calls, following a collected
\* success envelope of one retry
C23_Witness ==
    /\ pc = "returned"
    /\ ~ret.success /\ Len(hist) = 3 /\ ret.retries = 2
    /\ Len(results) = 1 /\ results[1].success /\ results[1].retries = 1

-----------------------------------------------------------------------------
(* Claims about the three rates together *)

RateNames == {"schema_compliance_rate", "overall_success_rate", "retry_rate"}

Successes == Cardinality({i \in 1..Len(sresults) : sresults[i].success})
RetriedSuccesses ==
    Cardinality({i \in 1..Len(sresults) : sresults[i].success /\ sresults[i].retries > 0})

\* 100.0
Hundred == float_times_100(truediv(1, 1))

\* the rate is a float between 0.0 and 100.0
InRange(rate) ==
    /\ 0 <= rate.num /\ rate.num <= 100 * rate.den
    /\ ~float_less(rate.float, Zero) /\ ~float_less(Hundred, rate.float)

\* y is x or one of the n floats right above x
UpTo(x, y, n) == \E k \in 0..n : y = (IF k = 0 THEN x ELSE IF k = 1 THEN nextafter(x)
                                      ELSE nextafter(nextafter(x)))

\* C24 as stated: for every batch, schema_compliance_rate + retry_rate ==
\* overall_success_rate as Python computes them, and each rate is in range.
C24_RatesAddUp ==
    (pc = "scored" /\ sout.fn = "overall_success_rate")
    => /\ float_add(schema_compliance_rate(sresults).float, retry_rate(sresults).float)
              = sout.val.float
       /\ InRange(sout.val)

\* C24 amended: first-try and retried successes partition the successes, so
\* the three rates add up as exact numbers; the floats Python computes add up
\* to rounding, the sum within two units in the last place of the overall
\* rate; and each rate lies between 0.0 and 100.0.
C24_RatesAddUpToRounding ==
    /\ FirstTrySuccesses + RetriedSuccesses = Successes
    /\ (pc = "scored" /\ sout.fn \in RateNames) => InRange(sout.val)
    /\ (pc = "scored" /\ sout.fn = "overall_success_rate")
       => LET first == schema_compliance_rate(sresults)
              retried == retry_rate(sresults)
              exact == Plus(first, retried)
              added == float_add(first.float, retried.float)
          IN  /\ exact.num = sout.val.num /\ exact.den = sout.val.den
              /\ UpTo(added, sout.val.float, 2) \/ UpTo(sout.val.float, added, 2)

\* C24 witness: of three successes one was first-try and two were retried; the
\* overall rate is 100.0 and the sum of the other two is the float below it
C24_Witness ==
    /\ pc = "scored" /\ sout.fn = "overall_success_rate"
    /\ Len(sresults) = 3 /\ FirstTrySuccesses = 1 /\ RetriedSuccesses = 2
    /\ sout.val.float = Hundred
    /\ nextafter(float_add(schema_compliance_rate(sresults).float,
                           retry_rate(sresults).float)) = Hundred

-----------------------------------------------------------------------------
(* Claims about the five scorers *)

ScorerNames == RateNames \cup {"genre_accuracy", "manual_accuracy"}

\* the annotations manual_accuracy can compare: the first result of their title
\* succeeded
ComparableAnnotations ==
    {a \in 1..Len(annotations) :
        \E i \in 1..Len(sresults) :
            /\ sresults[i].title = annotations[a].title
            /\ sresults[i].success
            /\ \A j \in 1..(i - 1) : sresults[j].title # annotations[a].title}

\* C22: the scorers are pure: a call of any of the five leaves the results
\* sequence with all its envelopes and records, and the annotations, as they were.
C22_ScorersArePure ==
    [][(pc = "score" /\ pc' = "scored")
          => /\ sout'.fn \in ScorerNames
             /\ sresults' = sresults
             /\ annotations' = annotations]_vars

\* C22 witness: manual_accuracy has scored an annotation against a result
C22_Witness ==
    /\ pc = "scored" /\ sout.fn = "manual_accuracy"
    /\ Len(sresults) = 2 /\ Len(annotations) = 1
    /\ Len(sout.val.details) = 1
    /\ sout.val.details[1].title = annotations[1].title

\* C25: no scorer fails on an empty denominator: a rate of an empty batch is
\* 0.0, genre_accuracy without a comparable result returns accuracy 0.0 and
\* total 0, and manual_accuracy without a comparable annotation returns 0.0 for
\* every field average and for the overall score.
C25_EmptyDenominatorGivesZero ==
    pc = "scored" =>
        /\ sout.fn \in ScorerNames
        /\ (sout.fn \in RateNames /\ sresults = <<>>) => sout.val = ZeroRate
        /\ (sout.fn = "genre_accuracy" /\ ComparableResults = {})
               => /\ sout.val.accuracy = Frac(0, 1)
                  /\ sout.val.total = 0
        /\ (sout.fn = "manual_accuracy" /\ ComparableAnnotations = {})
               => \A f \in set(field_scores_keys) \cup {"overall"} :
                      sout.val.average_scores[f] = Frac(0, 1)

\* C25 witness: manual_accuracy on results and an annotation none of which is
\* comparable: the result of that title failed
C25_Witness ==
    /\ pc = "scored" /\ sout.fn = "manual_accuracy"
    /\ Len(annotations) = 1 /\ Len(sresults) = 2
    /\ sresults[1].title = annotations[1].title /\ ~sresults[1].success
    /\ sresults[2].success
    /\ ComparableAnnotations = {}
    /\ sout.val.average_scores["overall"] = Frac(0, 1)
    /\ sout.val.details = <<>>

\* C26: when manual_accuracy leaves its loop, each of the five score lists has
\* one score per comparable annotation, so the five have one length, the number
\* of detail records.
C26_FieldListsInStep ==
    (pc = "scored" /\ sout.fn = "manual_accuracy") =>
        \A f \in set(field_scores_keys) :
            /\ Len(FieldScores(sresults, annotations, f)) = Len(sout.val.details)
            /\ Len(FieldScores(sresults, annotations, f)) = Cardinality(ComparableAnnotations)
            /\ \A k \in 1..Len(sout.val.details) :
                  FieldScores(sresults, annotations, f)[k] = sout.val.details[k].scores[f]

\* C26 witness: two annotations scored, one of them with no content warnings on
\* either side
C26_Witness ==
    /\ pc = "scored" /\ sout.fn = "manual_accuracy"
    /\ Len(sout.val.details) = 2
    /\ \E k \in 1..2 :
          /\ DumpedSet(sout.val.details[k].extracted, "content_warnings") = {}
          /\ DumpedSet(sout.val.details[k].expected, "content_warnings") = {}
    /\ Len(FieldScores(sresults, annotations, "content_warnings")) = 2

====
